---- MODULE Spec2Model ----
(***************************************************************************)
(* Model of streamMoney (src/src/services/switch.ts): one streaming       *)
(* session that sends conditioned packets from a source uplink to a        *)
(* destination uplink until the amount is fulfilled, capacity is           *)
(* exhausted or the stream stalls.                                         *)
(*                                                                         *)
(* Amounts.  BigNumber amounts in the source base unit are held as         *)
(* integers counting 1/Den of a base unit, so that amounts with more       *)
(* precision than the base unit exist; Infinity and NaN are the two        *)
(* BigNumber special values.  Amounts in an exchange unit are rationals    *)
(* <<numerator, denominator>>.                                             *)
(*                                                                         *)
(* Control.  JavaScript runs each stretch of code between two awaits       *)
(* without interruption, so every action is one such stretch; the clock    *)
(* and the uplinks move only while the session is suspended at an await.   *)
(***************************************************************************)
EXTENDS Integers, Sequences, FiniteSets, TLC

\* ---------------------------------------------------------------- bounds
Den == 2
MaxAmount == 4
MaxForeign == 2
MaxDestAmount == 3
MaxPrepare == 3
NumSecrets == 1
TickStep == 5000
MaxTime == 15000
SrcScale == 10
DstScale == 10
RateNum == 3
RateDen == 2

\* ------------------------------------------------------ program constants
IDLE_TIMEOUT == 10000
EXPIRATION_WINDOW == 5000
DEBIT_WAIT == 5
SlipNum == 1
SlipDen == 100
Infinity == -1
NaN == -2

VARIABLES
  pc,                \* position of the session
  now,               \* Date.now()
  amount,            \* opts.amount, in source exchange units
  sameUplink,        \* opts.source and opts.dest are the same uplink
  availableToSend,   \* source.availableToSend$, source exchange units
  availableToReceive,\* dest.availableToReceive$, destination exchange units
  availableToDebit,  \* source.availableToDebit$, source exchange units
  amountToSend, timeout, prepareCount, fulfillCount, totalFulfilled,
  maxPacketAmount,
  packetAmount,      \* packetAmount of the current iteration
  wakeAt,            \* when the 5 ms timer of the debit wait fires
  fulfillment,       \* secret of the current packet
  handler,           \* the packet handler slot of dest
  packet,            \* the prepare handed to sendPacket
  handlerCall,       \* the last call of dest's handler and what it returned
  response,          \* what the await of sendPacket produced
  result,            \* settlement of the promise of trySendPacket
  failure,           \* which failure settled it
  largestPacket,     \* history: the largest packetAmount sent so far
  lastFulfilled,     \* history: the packetAmount of the last fulfill
  dispatched,        \* history: the prepares handed to sendPacket
  fulfills,          \* history: the fulfills sendPacket resolved with
  applied,           \* history: the outcomes trySendPacket has dealt with
  otherPc            \* position of a second session that streams to dest

vars == <<pc, now, amount, sameUplink, availableToSend, availableToReceive,
          availableToDebit, amountToSend, timeout, prepareCount,
          fulfillCount, totalFulfilled, maxPacketAmount, packetAmount,
          wakeAt, fulfillment, handler, packet, handlerCall, response,
          result, failure, largestPacket, lastFulfilled, dispatched,
          fulfills, applied, otherPc>>

counts == <<dispatched, fulfills, applied>>

session == <<amountToSend, timeout, prepareCount, fulfillCount,
             totalFulfilled, maxPacketAmount, packetAmount, largestPacket,
             lastFulfilled>>

uplinks == <<availableToSend, availableToReceive, availableToDebit>>

\* ------------------------------------------------------------ arithmetic
Rat(n, d) == <<n, d>>

RatGT(a, b) == a[1] * b[2] > b[1] * a[2]

CeilDiv(a, b) == (a + b - 1) \div b

\* BigNumber comparisons and minimum, with the special values
BNgte(a, b) ==
  IF a = NaN \/ b = NaN THEN FALSE
  ELSE IF a = Infinity THEN TRUE
  ELSE IF b = Infinity THEN FALSE
  ELSE a >= b

BNlt(a, b) ==
  IF a = NaN \/ b = NaN THEN FALSE
  ELSE IF a = Infinity THEN FALSE
  ELSE IF b = Infinity THEN TRUE
  ELSE a < b

BNmin(a, b) == IF BNlt(b, a) THEN b ELSE a

\* ------------------------------------------------ settlers and the oracle
destScale == IF sameUplink THEN SrcScale ELSE DstScale
rateNum == IF sameUplink THEN 1 ELSE RateNum
rateDen == IF sameUplink THEN 1 ELSE RateDen

\* convert(sourceSettler.exchangeUnit(x), sourceSettler.baseUnit()): a shift
\* by the scale of the exchange unit, exact for the amounts drawn here
ToBase(x) == (x[1] * SrcScale * Den) \div x[2]

\* convert(sourceSettler.baseUnit(x), sourceSettler.exchangeUnit())
ToExchange(x) == Rat(x, Den * SrcScale)

\* convert(sourceSettler.baseUnit(x), destSettler.exchangeUnit(), rateBackend)
ToDestExchange(x) == Rat(x * rateNum, Den * SrcScale * rateDen)

\* ------------------------------------------------------- inputs drawn
Amounts == {Rat(k, Den * SrcScale) : k \in 1..MaxAmount}

SendLevels ==
  {Rat(MaxAmount \div 2, Den * SrcScale), Rat(MaxAmount, Den * SrcScale)}

ReceiveLevels ==
  {Rat(MaxAmount \div 2, Den * SrcScale),
   Rat(MaxAmount * RateNum, Den * SrcScale * RateDen)}

DebitLevels ==
  {Rat(0, 1), Rat(1, Den * SrcScale), Rat(MaxAmount, Den * SrcScale)}

Secrets == 1..NumSecrets

\* sha256 of a secret: an injective map into the conditions
Sha256(s) == <<"sha256", s>>

\* the conditions a prepare may carry: those of the secrets and a foreign one
Conditions == {Sha256(s) : s \in 0..NumSecrets}

\* ------------------------------------------------------- the handler slot
\* the default handler of an uplink, which rejects every packet
NoHandler == [owner |-> 0, sourceAmount |-> 0, condition |-> Sha256(0),
              fulfillment |-> 0]

registerPacketHandler(h) == h

deregisterPacketHandler == NoHandler

NoCall == [condition |-> Sha256(0), amount |-> 0, reply |-> "none",
           fulfillment |-> 0]

NoPacket == [amount |-> 0, executionCondition |-> Sha256(0), expiresAt |-> 0]

NoResponse == [type |-> "none", code |-> "none", dataLength |-> 0,
               foreignReceived |-> 0, foreignMax |-> 0]

\* ----------------------------------------------------------- packet size
remainingAmount == amountToSend - totalFulfilled

isFailing == now > timeout

\* BigNumber.min(availableToDebit, remainingAmount, maxPacketAmount)
PacketBound(debit, remaining, max) == BNmin(BNmin(debit, remaining), max)

\* remainingAmount.div(packetAmount).dp(0, ROUND_CEIL), remaining > 0.
\* BigNumber rounds the quotient to 20 decimals before the ceiling, which
\* differs from the exact ceiling only for quotients above 10^20.
RemainingNumPackets(remaining, bound) ==
  IF bound = 0 THEN Infinity ELSE CeilDiv(remaining, bound)

\* EqualSplit that rounds the share down
EqualSplit_Floor(remaining, numPackets) ==
  IF numPackets = Infinity THEN 0
  ELSE (remaining \div (numPackets * Den)) * Den

\* remainingAmount.div(remainingNumPackets).dp(0, ROUND_CEIL)
EqualSplit(remaining, numPackets) ==
  IF numPackets = Infinity THEN 0
  ELSE CeilDiv(remaining, numPackets * Den) * Den

\* SizePacket that leaves maxPacketAmount out of the minimum
SizePacket_IgnoresMax(debit, remaining, max) ==
  EqualSplit(remaining,
             RemainingNumPackets(remaining, BNmin(debit, remaining)))

SizePacket(debit, remaining, max) ==
  EqualSplit(remaining,
             RemainingNumPackets(remaining,
                                 PacketBound(debit, remaining, max)))

\* ------------------------------------------------------------ the session
InitSession ==
  /\ pc = "start"
  /\ now = 0
  /\ amount \in Amounts
  /\ sameUplink \in BOOLEAN
  /\ availableToSend \in SendLevels
  /\ availableToReceive \in ReceiveLevels
  /\ availableToDebit \in DebitLevels
  /\ amountToSend = 0
  /\ timeout = 0
  /\ prepareCount = 0
  /\ fulfillCount = 0
  /\ totalFulfilled = 0
  /\ maxPacketAmount = Infinity
  /\ packetAmount = 0
  /\ wakeAt = 0
  /\ fulfillment = 0
  /\ handler = NoHandler
  /\ packet = NoPacket
  /\ handlerCall = NoCall
  /\ response = NoResponse
  /\ result = "pending"
  /\ failure = "none"
  /\ largestPacket = 0
  /\ lastFulfilled = 0
  /\ dispatched = 0
  /\ fulfills = 0
  /\ applied = 0

\* a session that has dest to itself
Init ==
  /\ InitSession
  /\ otherPc = "absent"

\* streamMoney up to its call of trySendPacket
StreamMoney ==
  /\ pc = "start"
  /\ amountToSend' = ToBase(amount)
  /\ timeout' = now + IDLE_TIMEOUT
  /\ prepareCount' = 0
  /\ fulfillCount' = 0
  /\ totalFulfilled' = 0
  /\ maxPacketAmount' = Infinity
  /\ pc' = "loop"
  /\ UNCHANGED <<now, amount, sameUplink, uplinks, packetAmount, wakeAt,
                 fulfillment, handler, packet, handlerCall, response,
                 result, failure, largestPacket, lastFulfilled,
                 otherPc, counts>>

\* a return or a Promise.reject() of trySendPacket
Settle(r, f) ==
  /\ pc' = "finally"
  /\ result' = r
  /\ failure' = f
  /\ UNCHANGED <<now, amount, sameUplink, uplinks, session, wakeAt,
                 fulfillment, handler, packet, handlerCall, response,
                 otherPc, counts>>

IdleTimeout ==
  /\ pc = "loop"
  /\ isFailing
  /\ Settle("FAILED", "StreamTimeoutError")

StreamSucceeded ==
  /\ pc = "loop"
  /\ ~isFailing
  /\ remainingAmount = 0
  /\ Settle("SUCCEEDED", "none")

StreamOvershoot ==
  /\ pc = "loop"
  /\ ~isFailing
  /\ remainingAmount # 0
  /\ remainingAmount <= 0
  /\ Settle("SUCCEEDED_OVERSHOOT", "none")

\* OutgoingExceeded that reads the capacity of the wrong direction
OutgoingExceeded_WrongSignal ==
  RatGT(ToExchange(remainingAmount), availableToReceive)

OutgoingExceeded == RatGT(ToExchange(remainingAmount), availableToSend)

\* IncomingExceeded that converts without the price oracle
IncomingExceeded_NoOracle ==
  RatGT(ToExchange(remainingAmount), availableToReceive)

IncomingExceeded == RatGT(ToDestExchange(remainingAmount), availableToReceive)

InsufficientOutgoing ==
  /\ pc = "loop"
  /\ ~isFailing
  /\ remainingAmount > 0
  /\ OutgoingExceeded
  /\ Settle("FAILED", "InsufficientOutgoingCapacityError")

InsufficientIncoming ==
  /\ pc = "loop"
  /\ ~isFailing
  /\ remainingAmount > 0
  /\ ~OutgoingExceeded
  /\ IncomingExceeded
  /\ Settle("FAILED", "InsufficientIncomingCapacityError")

CanSize ==
  /\ pc = "loop"
  /\ ~isFailing
  /\ remainingAmount > 0
  /\ ~OutgoingExceeded
  /\ ~IncomingExceeded

\* DebitWait that refreshes the idle deadline
DebitWait_BumpsIdle ==
  /\ CanSize
  /\ ToBase(availableToDebit) <= 0
  /\ wakeAt' = now + DEBIT_WAIT
  /\ timeout' = now + IDLE_TIMEOUT
  /\ pc' = "wait"
  /\ UNCHANGED <<now, amount, sameUplink, uplinks, amountToSend,
                 prepareCount, fulfillCount, totalFulfilled, maxPacketAmount,
                 packetAmount, largestPacket, lastFulfilled, fulfillment,
                 handler, packet, handlerCall, response, result, failure,
                 otherPc, counts>>

DebitWait ==
  /\ CanSize
  /\ ToBase(availableToDebit) <= 0
  /\ wakeAt' = now + DEBIT_WAIT
  /\ pc' = "wait"
  /\ UNCHANGED <<now, amount, sameUplink, uplinks, session, fulfillment,
                 handler, packet, handlerCall, response, result, failure,
                 otherPc, counts>>

DebitWaitOver ==
  /\ pc = "wait"
  /\ now >= wakeAt
  /\ pc' = "loop"
  /\ UNCHANGED <<now, amount, sameUplink, uplinks, session, wakeAt,
                 fulfillment, handler, packet, handlerCall, response,
                 result, failure, otherPc, counts>>

\* PreparePacket that leaves prepareCount alone
PreparePacket_NoCount ==
  /\ CanSize
  /\ ToBase(availableToDebit) > 0
  /\ prepareCount < MaxPrepare
  /\ dispatched < MaxPrepare
  /\ packetAmount' = SizePacket(ToBase(availableToDebit), remainingAmount,
                                maxPacketAmount)
  /\ pc' = "gen"
  /\ UNCHANGED <<now, amount, sameUplink, uplinks, amountToSend, timeout,
                 prepareCount, fulfillCount, totalFulfilled, maxPacketAmount,
                 wakeAt, fulfillment, handler, packet, handlerCall, response,
                 result, failure, largestPacket, lastFulfilled,
                 otherPc, counts>>

\* sizes the packet and counts it, up to the await of generateSecret
PreparePacket ==
  /\ CanSize
  /\ ToBase(availableToDebit) > 0
  /\ prepareCount < MaxPrepare
  /\ packetAmount' = SizePacket(ToBase(availableToDebit), remainingAmount,
                                maxPacketAmount)
  /\ prepareCount' = prepareCount + 1
  /\ pc' = "gen"
  /\ UNCHANGED <<now, amount, sameUplink, uplinks, amountToSend, timeout,
                 fulfillCount, totalFulfilled, maxPacketAmount, wakeAt,
                 fulfillment, handler, packet, handlerCall, response,
                 result, failure, largestPacket, lastFulfilled,
                 otherPc, counts>>

\* ------------------------------------------------- the accept predicate
\* acceptExchangeRate that rounds the bound down
AcceptExchangeRate_Floor(sourceAmount, destAmount) ==
  destAmount >= (sourceAmount * rateNum * destScale * (SlipDen - SlipNum))
                  \div (Den * SrcScale * rateDen * SlipDen)

\* acceptExchangeRate(sourceAmount, destAmount)
AcceptExchangeRate(sourceAmount, destAmount) ==
  destAmount >= CeilDiv(sourceAmount * rateNum * destScale
                          * (SlipDen - SlipNum),
                        Den * SrcScale * rateDen * SlipDen)

\* what the handler registered in the slot returns for a prepare
PacketHandler(h, someCondition, destAmount) ==
  IF h = NoHandler
    THEN [reply |-> "reject", fulfillment |-> 0]
    ELSE IF AcceptExchangeRate(h.sourceAmount, destAmount)
              /\ h.condition = someCondition
           THEN [reply |-> "fulfill", fulfillment |-> h.fulfillment]
           ELSE [reply |-> "APPLICATION_ERROR", fulfillment |-> 0]

\* SendPrepare that does not await the response of sendPacket
SendPrepare_NoAwait ==
  /\ pc = "gen"
  /\ \E s \in Secrets :
       /\ fulfillment' = s
       /\ handler' = registerPacketHandler(
                       [owner |-> 1, sourceAmount |-> packetAmount,
                        condition |-> Sha256(s), fulfillment |-> s])
       /\ packet' = [amount |-> packetAmount,
                     executionCondition |-> Sha256(s),
                     expiresAt |-> now + EXPIRATION_WINDOW]
  /\ largestPacket' = IF packetAmount > largestPacket THEN packetAmount
                      ELSE largestPacket
  /\ dispatched' = dispatched + 1
  /\ pc' = "loop"
  /\ UNCHANGED <<now, amount, sameUplink, uplinks, amountToSend, timeout,
                 prepareCount, fulfillCount, totalFulfilled, maxPacketAmount,
                 packetAmount, wakeAt, handlerCall, response, result,
                 failure, lastFulfilled, otherPc, fulfills, applied>>

\* generateSecret resolved: registers the handler and sends the prepare
SendPrepare ==
  /\ pc = "gen"
  /\ \E s \in Secrets :
       /\ fulfillment' = s
       /\ handler' = registerPacketHandler(
                       [owner |-> 1, sourceAmount |-> packetAmount,
                        condition |-> Sha256(s), fulfillment |-> s])
       /\ packet' = [amount |-> packetAmount,
                     executionCondition |-> Sha256(s),
                     expiresAt |-> now + EXPIRATION_WINDOW]
  /\ largestPacket' = IF packetAmount > largestPacket THEN packetAmount
                      ELSE largestPacket
  /\ dispatched' = dispatched + 1
  /\ pc' = "inflight"
  /\ UNCHANGED <<now, amount, sameUplink, uplinks, amountToSend, timeout,
                 prepareCount, fulfillCount, totalFulfilled, maxPacketAmount,
                 packetAmount, wakeAt, handlerCall, response, result,
                 failure, lastFulfilled, otherPc, fulfills, applied>>

\* the transport hands a prepare to the handler of dest
DeliverPrepare ==
  /\ pc = "inflight"
  /\ handlerCall = NoCall
  /\ \E c \in Conditions, a \in 0..MaxDestAmount :
       handlerCall' = [condition |-> c, amount |-> a,
                       reply |-> PacketHandler(handler, c, a).reply,
                       fulfillment |-> PacketHandler(handler, c, a).fulfillment]
  /\ UNCHANGED <<pc, now, amount, sameUplink, uplinks, session, wakeAt,
                 fulfillment, handler, packet, response, result, failure,
                 otherPc, counts>>

Resolve(r) ==
  /\ pc = "inflight"
  /\ response' = r
  /\ handlerCall' = NoCall
  /\ fulfills' = IF r.type = "fulfill" THEN fulfills + 1 ELSE fulfills
  /\ pc' = "resp"
  /\ UNCHANGED <<now, amount, sameUplink, uplinks, session, wakeAt,
                 fulfillment, handler, packet, result, failure, otherPc,
                 dispatched, applied>>

\* sendPacket resolves with a fulfill: only with the disclosed secret
ReplyFulfill ==
  /\ handlerCall.reply = "fulfill"
  /\ Sha256(handlerCall.fulfillment) = packet.executionCondition
  /\ Resolve([NoResponse EXCEPT !.type = "fulfill"])

RejectCodes == {"F08", "F99"}

\* sendPacket resolves with a reject of some code and data
ReplyReject ==
  \E c \in RejectCodes, len \in {0, 16}, fr \in 0..MaxForeign,
     fm \in 0..MaxForeign :
     /\ len = 0 => fr = 0 /\ fm = 0
     /\ c # "F08" => len = 0
     /\ Resolve([type |-> "reject", code |-> c, dataLength |-> len,
                 foreignReceived |-> fr, foreignMax |-> fm])

\* sendPacket rejects (throws at the await)
ReplyThrow ==
  Resolve([NoResponse EXCEPT !.type = "throw"])

\* ----------------------------------------------------- after the response
\* newMaxPacketAmount with the two amounts of the payload exchanged
NewMaxPacketAmount_Swapped(p, foreignMax, foreignReceived) ==
  IF foreignMax = 0
    THEN IF p * foreignReceived = 0 THEN NaN ELSE Infinity
    ELSE (((p \div Den) * foreignReceived) \div foreignMax) * Den

\* packetAmount.times(foreignMax).dividedToIntegerBy(foreignReceived)
NewMaxPacketAmount(p, foreignMax, foreignReceived) ==
  IF foreignReceived = 0
    THEN IF p * foreignMax = 0 THEN NaN ELSE Infinity
    ELSE (((p \div Den) * foreignMax) \div foreignReceived) * Den

\* ReduceMax without the comparison against packetAmount
ReduceMax_Unguarded(max, p, newMax) ==
  IF newMax = NaN THEN max ELSE newMax

\* the monotone update of maxPacketAmount
ReduceMax(max, p, newMax) ==
  IF BNgte(newMax, p) THEN max
  ELSE IF BNlt(newMax, p) THEN newMax
  ELSE max

\* NextIteration without its deregisterPacketHandler(dest)
NextIteration_KeepsHandler ==
  /\ handler' = handler
  /\ pc' = "loop"
  /\ fulfillment' = 0
  /\ packet' = NoPacket
  /\ handlerCall' = NoCall
  /\ response' = NoResponse
  /\ applied' = applied + 1

\* the end of an iteration: deregisters the handler and calls trySendPacket
NextIteration ==
  /\ handler' = deregisterPacketHandler
  /\ pc' = "loop"
  /\ fulfillment' = 0
  /\ packet' = NoPacket
  /\ handlerCall' = NoCall
  /\ response' = NoResponse
  /\ applied' = applied + 1

\* an exception leaves trySendPacket
Throw(error) ==
  /\ pc' = "finally"
  /\ result' = "FAILED"
  /\ failure' = error
  /\ fulfillment' = 0
  /\ packet' = NoPacket
  /\ handlerCall' = NoCall
  /\ response' = NoResponse
  /\ applied' = applied + 1
  /\ UNCHANGED <<now, amount, sameUplink, uplinks, session, wakeAt, handler,
                 otherPc, dispatched, fulfills>>

\* HandleReject that lowers maxPacketAmount on every code
HandleReject_AnyCodeShrinks ==
  /\ pc = "resp"
  /\ response.type = "reject"
  /\ ~(response.code = "F08" /\ response.dataLength < 16)
  /\ maxPacketAmount' =
       IF response.code = "F08"
         THEN ReduceMax(maxPacketAmount, packetAmount,
                        NewMaxPacketAmount(packetAmount, response.foreignMax,
                                           response.foreignReceived))
         ELSE BNmin(maxPacketAmount, packetAmount)
  /\ NextIteration
  /\ UNCHANGED <<now, amount, sameUplink, uplinks, amountToSend, timeout,
                 prepareCount, fulfillCount, totalFulfilled, packetAmount,
                 wakeAt, result, failure, largestPacket, lastFulfilled,
                 otherPc, dispatched, fulfills>>

\* HandleReject that refreshes the idle deadline as a fulfill does
HandleReject_BumpsIdle ==
  /\ pc = "resp"
  /\ response.type = "reject"
  /\ ~(response.code = "F08" /\ response.dataLength < 16)
  /\ maxPacketAmount' =
       IF response.code = "F08"
         THEN ReduceMax(maxPacketAmount, packetAmount,
                        NewMaxPacketAmount(packetAmount, response.foreignMax,
                                           response.foreignReceived))
         ELSE maxPacketAmount
  /\ timeout' = now + IDLE_TIMEOUT
  /\ NextIteration
  /\ UNCHANGED <<now, amount, sameUplink, uplinks, amountToSend,
                 prepareCount, fulfillCount, totalFulfilled, packetAmount,
                 wakeAt, result, failure, largestPacket, lastFulfilled,
                 otherPc, dispatched, fulfills>>

\* HandleReject that counts the rejected packet as delivered
HandleReject_CountsAmount ==
  /\ pc = "resp"
  /\ response.type = "reject"
  /\ ~(response.code = "F08" /\ response.dataLength < 16)
  /\ maxPacketAmount' =
       IF response.code = "F08"
         THEN ReduceMax(maxPacketAmount, packetAmount,
                        NewMaxPacketAmount(packetAmount, response.foreignMax,
                                           response.foreignReceived))
         ELSE maxPacketAmount
  /\ totalFulfilled' = totalFulfilled + packetAmount
  /\ NextIteration
  /\ UNCHANGED <<now, amount, sameUplink, uplinks, amountToSend, timeout,
                 prepareCount, fulfillCount, packetAmount, wakeAt, result,
                 failure, largestPacket, lastFulfilled, otherPc,
                 dispatched, fulfills>>

HandleReject ==
  /\ pc = "resp"
  /\ response.type = "reject"
  /\ ~(response.code = "F08" /\ response.dataLength < 16)
  /\ maxPacketAmount' =
       IF response.code = "F08"
         THEN ReduceMax(maxPacketAmount, packetAmount,
                        NewMaxPacketAmount(packetAmount, response.foreignMax,
                                           response.foreignReceived))
         ELSE maxPacketAmount
  /\ NextIteration
  /\ UNCHANGED <<now, amount, sameUplink, uplinks, amountToSend, timeout,
                 prepareCount, fulfillCount, totalFulfilled, packetAmount,
                 wakeAt, result, failure, largestPacket, lastFulfilled,
                 otherPc, dispatched, fulfills>>

\* Reader.readUInt64BigNum on data shorter than two UInt64 throws
HandleRejectUnreadable ==
  /\ pc = "resp"
  /\ response.type = "reject"
  /\ response.code = "F08"
  /\ response.dataLength < 16
  /\ Throw("UnderflowError")

\* HandleFulfill that forgets to count the fulfill
HandleFulfill_NoCount ==
  /\ pc = "resp"
  /\ response.type = "fulfill"
  /\ timeout' = now + IDLE_TIMEOUT
  /\ totalFulfilled' = totalFulfilled + packetAmount
  /\ lastFulfilled' = packetAmount
  /\ NextIteration
  /\ UNCHANGED <<now, amount, sameUplink, uplinks, amountToSend,
                 prepareCount, fulfillCount, maxPacketAmount, packetAmount,
                 wakeAt, result, failure, largestPacket, otherPc,
                 dispatched, fulfills>>

HandleFulfill ==
  /\ pc = "resp"
  /\ response.type = "fulfill"
  /\ timeout' = now + IDLE_TIMEOUT
  /\ totalFulfilled' = totalFulfilled + packetAmount
  /\ fulfillCount' = fulfillCount + 1
  /\ lastFulfilled' = packetAmount
  /\ NextIteration
  /\ UNCHANGED <<now, amount, sameUplink, uplinks, amountToSend,
                 prepareCount, maxPacketAmount, packetAmount, wakeAt, result,
                 failure, largestPacket, otherPc,
                 dispatched, fulfills>>

HandleThrow ==
  /\ pc = "resp"
  /\ response.type = "throw"
  /\ Throw("SendError")

\* Finally without its deregisterPacketHandler(dest)
Finally_KeepsHandler ==
  /\ pc = "finally"
  /\ pc' = "done"
  /\ UNCHANGED <<now, amount, sameUplink, uplinks, session, wakeAt,
                 fulfillment, handler, packet, handlerCall, response, result,
                 failure, otherPc, counts>>

\* the finally callback of streamMoney
Finally ==
  /\ pc = "finally"
  /\ handler' = deregisterPacketHandler
  /\ pc' = "done"
  /\ UNCHANGED <<now, amount, sameUplink, uplinks, session, wakeAt,
                 fulfillment, packet, handlerCall, response, result, failure,
                 otherPc, counts>>

\* ---------------------------------------------------------- environment
Tick ==
  /\ pc \in {"wait", "inflight"}
  /\ now + TickStep <= MaxTime
  /\ now' = now + TickStep
  /\ UNCHANGED <<pc, amount, sameUplink, uplinks, session, wakeAt,
                 fulfillment, handler, packet, handlerCall, response, result,
                 failure, otherPc, counts>>

UplinkChange ==
  /\ pc \in {"wait", "gen"}
  /\ availableToSend' \in SendLevels
  /\ availableToReceive' \in ReceiveLevels
  /\ availableToDebit' \in DebitLevels
  /\ uplinks' # uplinks
  /\ UNCHANGED <<pc, now, amount, sameUplink, session, wakeAt, fulfillment,
                 handler, packet, handlerCall, response, result, failure,
                 otherPc, counts>>

\* the outcome the caller of streamMoney observes
Outcome == IF pc = "done" THEN result ELSE "RUNNING"

Next ==
  \/ StreamMoney
  \/ IdleTimeout
  \/ StreamSucceeded
  \/ StreamOvershoot
  \/ InsufficientOutgoing
  \/ InsufficientIncoming
  \/ DebitWait
  \/ DebitWaitOver
  \/ PreparePacket
  \/ SendPrepare
  \/ DeliverPrepare
  \/ ReplyFulfill
  \/ ReplyReject
  \/ ReplyThrow
  \/ HandleReject
  \/ HandleRejectUnreadable
  \/ HandleFulfill
  \/ HandleThrow
  \/ Finally
  \/ Tick
  \/ UplinkChange

Spec == Init /\ [][Next]_vars

\* ------------------------------------------- restricted environments
\* the uplinks cover the amount x, and the source has something to debit
Covers(x) ==
  /\ ~RatGT(ToExchange(x), availableToSend)
  /\ ~RatGT(ToDestExchange(x), availableToReceive)

CoveredUplinkChange ==
  /\ UplinkChange
  /\ Covers(remainingAmount)'

\* Unlimited capacity and a destination that fulfills every packet, for a
\* whole number of base units.
HappyInit ==
  /\ Init
  /\ ToBase(amount) % Den = 0
  /\ Covers(ToBase(amount))
  /\ ToBase(availableToDebit) > 0

HappyUplinkChange ==
  /\ CoveredUplinkChange
  /\ ToBase(availableToDebit') > 0

HappyDeliver ==
  /\ DeliverPrepare
  /\ handlerCall'.reply = "fulfill"

HappyProgress ==
  \/ StreamMoney
  \/ StreamSucceeded
  \/ PreparePacket
  \/ SendPrepare
  \/ HappyDeliver
  \/ ReplyFulfill
  \/ HandleFulfill
  \/ Finally

HappyNext ==
  \/ StreamMoney
  \/ StreamSucceeded
  \/ PreparePacket
  \/ SendPrepare
  \/ HappyDeliver
  \/ ReplyFulfill
  \/ HandleFulfill
  \/ Finally
  \/ Tick
  \/ HappyUplinkChange

SpecHappy == HappyInit /\ [][HappyNext]_vars /\ WF_vars(HappyProgress)

\* Capacity that keeps covering the remaining amount and a network that
\* rejects every packet with a code other than F08.
IdleInit ==
  /\ Init
  /\ Covers(ToBase(amount))

IdleReject ==
  /\ ReplyReject
  /\ response'.code # "F08"

IdleProgress ==
  \/ StreamMoney
  \/ IdleTimeout
  \/ DebitWait
  \/ DebitWaitOver
  \/ PreparePacket
  \/ SendPrepare
  \/ IdleReject
  \/ HandleReject
  \/ Finally

IdleNext ==
  \/ StreamMoney
  \/ IdleTimeout
  \/ DebitWait
  \/ DebitWaitOver
  \/ PreparePacket
  \/ SendPrepare
  \/ DeliverPrepare
  \/ IdleReject
  \/ HandleReject
  \/ Finally
  \/ Tick
  \/ CoveredUplinkChange

SpecIdle == IdleInit /\ [][IdleNext]_vars /\ WF_vars(IdleProgress)

\* --------------------------------- a second session on the same dest
\* A second call of streamMoney with the same dest runs while the first is
\* suspended at an await. Of its state only its place (otherPc) and what it
\* does to the handler slot of dest are kept.
Suspended == pc \in {"gen", "inflight"}

OtherSecret == NumSecrets + 1

\* the second session registers the predicate of its packet and sends
Other_SendPrepare ==
  /\ otherPc = "idle"
  /\ Suspended
  /\ handler' = registerPacketHandler(
                  [owner |-> 2, sourceAmount |-> Den,
                   condition |-> Sha256(OtherSecret),
                   fulfillment |-> OtherSecret])
  /\ otherPc' = "inflight"
  /\ UNCHANGED <<pc, now, amount, sameUplink, uplinks, session, wakeAt,
                 fulfillment, packet, handlerCall, response, result, failure,
                 counts>>

\* the second session ends an iteration: deregisters, calls trySendPacket
Other_NextIteration ==
  /\ otherPc = "inflight"
  /\ Suspended
  /\ handler' = deregisterPacketHandler
  /\ otherPc' = "idle"
  /\ UNCHANGED <<pc, now, amount, sameUplink, uplinks, session, wakeAt,
                 fulfillment, packet, handlerCall, response, result, failure,
                 counts>>

\* the second session settles: the finally callback of its streamMoney
Other_Finally ==
  /\ otherPc = "idle"
  /\ Suspended
  /\ handler' = deregisterPacketHandler
  /\ otherPc' = "done"
  /\ UNCHANGED <<pc, now, amount, sameUplink, uplinks, session, wakeAt,
                 fulfillment, packet, handlerCall, response, result, failure,
                 counts>>

\* two sessions on one dest, with capacity that covers the first one
TwoInit ==
  /\ InitSession
  /\ otherPc = "idle"
  /\ Covers(ToBase(amount))
  /\ ToBase(availableToDebit) > 0

TwoNext ==
  \/ StreamMoney
  \/ IdleTimeout
  \/ StreamSucceeded
  \/ PreparePacket
  \/ SendPrepare
  \/ DeliverPrepare
  \/ ReplyFulfill
  \/ IdleReject
  \/ HandleFulfill
  \/ HandleReject
  \/ Finally
  \/ Tick
  \/ Other_SendPrepare
  \/ Other_NextIteration
  \/ Other_Finally

SpecTwo == TwoInit /\ [][TwoNext]_vars

\* The environment of SpecIdle with a clock that keeps advancing.
SpecWait ==
  IdleInit /\ [][IdleNext]_vars /\ WF_vars(IdleProgress) /\ WF_vars(Tick)

\* ================================================================ claims
Terminal == Outcome \in {"SUCCEEDED", "SUCCEEDED_OVERSHOOT", "FAILED"}

\* C1: once streamMoney has settled, whatever the outcome, the handler slot
\* of dest no longer holds a predicate registered by the session.
C1_Cleanup == Terminal => handler = NoHandler /\ handler.owner # 1

\* a session that ended on a thrown send, which left its handler registered
C1_Witness ==
  /\ Outcome = "FAILED"
  /\ failure = "SendError"
  /\ prepareCount > 0
  /\ handler = NoHandler

\* C3: maxPacketAmount never increases: every step leaves it as it was or
\* lowers it.
C3_Monotone ==
  [][\/ maxPacketAmount' = maxPacketAmount
     \/ /\ maxPacketAmount' # Infinity
        /\ maxPacketAmount = Infinity \/ maxPacketAmount' < maxPacketAmount]_vars

\* an amount-too-large reject arrives after maxPacketAmount was lowered, with
\* a payload that asks for more than the packet that was sent
C3_Witness ==
  /\ pc = "resp"
  /\ response.code = "F08"
  /\ response.dataLength = 16
  /\ maxPacketAmount # Infinity
  /\ response.foreignReceived > 0
  /\ response.foreignMax > response.foreignReceived

\* C4: totalFulfilled never exceeds amountToSend by more than the last
\* fulfilled packet, and a positive excess at the end is strictly less than
\* the largest packet sent.
C4_OvershootBound ==
  /\ totalFulfilled <= amountToSend + lastFulfilled
  /\ (Terminal /\ totalFulfilled - amountToSend > 0)
       => totalFulfilled - amountToSend < largestPacket

\* a session that ended above the requested amount
C4_Witness ==
  /\ Outcome = "SUCCEEDED_OVERSHOOT"
  /\ totalFulfilled > amountToSend
  /\ fulfillCount >= 2

\* C2: with capacity that covers the amount, something to debit and every
\* packet fulfilled, a whole amount A > 0 ends in SUCCEEDED with
\* totalFulfilled = A and fulfillCount = prepareCount, also when source and
\* dest are one uplink; the session never takes a failing or waiting branch.
C2_ExactCompletion ==
  /\ <>(/\ Outcome = "SUCCEEDED"
        /\ amountToSend = ToBase(amount)
        /\ amountToSend > 0
        /\ totalFulfilled = amountToSend
        /\ fulfillCount = prepareCount)
  /\ [](Terminal => Outcome = "SUCCEEDED" /\ totalFulfilled = amountToSend
                      /\ fulfillCount = prepareCount)
  /\ []~ENABLED (IdleTimeout \/ StreamOvershoot \/ InsufficientOutgoing
                   \/ InsufficientIncoming \/ DebitWait)

\* an uplink that streamed to itself in more than one packet
C2_Witness ==
  /\ Outcome = "SUCCEEDED"
  /\ sameUplink
  /\ totalFulfilled = amountToSend
  /\ fulfillCount = prepareCount
  /\ prepareCount >= 2

\* C5: when every packet is rejected with a code other than F08, the session
\* fails by idle timeout once the clock is past the deadline set at the
\* start, with nothing fulfilled; it ends in no other way.
C5_IdleFailed ==
  /\ Outcome = "FAILED"
  /\ failure = "StreamTimeoutError"
  /\ timeout = IDLE_TIMEOUT
  /\ fulfillCount = 0
  /\ totalFulfilled = 0

C5_IdleFailure ==
  /\ (pc # "start" /\ now > timeout) ~> C5_IdleFailed
  /\ [](Terminal => C5_IdleFailed /\ now > timeout)

\* a session that timed out after its packets were rejected
C5_Witness == C5_IdleFailed /\ prepareCount >= 2 /\ now > timeout

\* the first run of trySendPacket: nothing prepared and never waited
FirstIteration == pc = "loop" /\ prepareCount = 0 /\ wakeAt = 0

\* C6: a requested amount above the source's availableToSend fails the
\* session with InsufficientOutgoingCapacityError in the first iteration,
\* with no handler registered, no packet sent and all counters at zero, and
\* the session settles so.
C6_CapacityRefusal ==
  [][/\ pc = "start" =>
          /\ FirstIteration'
          /\ amountToSend' * amount[2] = amount[1] * SrcScale * Den
          /\ availableToSend' = availableToSend
     /\ (FirstIteration /\ RatGT(amount, availableToSend)) =>
          /\ pc' = "finally"
          /\ result' = "FAILED"
          /\ failure' = "InsufficientOutgoingCapacityError"
          /\ prepareCount' = 0 /\ fulfillCount' = 0 /\ totalFulfilled' = 0
          /\ handler' = NoHandler /\ packet' = NoPacket
     /\ pc = "finally" =>
          /\ pc' = "done"
          /\ UNCHANGED <<result, failure, prepareCount, fulfillCount,
                         totalFulfilled>>]_vars

\* the refused session, settled before it prepared anything
C6_Witness ==
  /\ Outcome = "FAILED"
  /\ failure = "InsufficientOutgoingCapacityError"
  /\ wakeAt = 0
  /\ RatGT(amount, availableToSend)
  /\ prepareCount = 0 /\ fulfillCount = 0 /\ totalFulfilled = 0

\* C7: in an iteration past the timeout, termination and outgoing checks,
\* a remaining amount whose oracle conversion exceeds availableToReceive
\* fails the session with InsufficientIncomingCapacityError and nothing is
\* sent or counted.
C7_IncomingCheck ==
  [][(/\ pc = "loop"
      /\ now <= timeout
      /\ remainingAmount > 0
      /\ ~RatGT(Rat(remainingAmount, Den * SrcScale), availableToSend)
      /\ RatGT(Rat(remainingAmount * rateNum, Den * SrcScale * rateDen),
               availableToReceive))
     => /\ pc' = "finally"
        /\ result' = "FAILED"
        /\ failure' = "InsufficientIncomingCapacityError"
        /\ UNCHANGED <<prepareCount, fulfillCount, totalFulfilled, handler,
                       packet, largestPacket>>]_vars

\* the check failed a session in a later iteration, after a fulfill
C7_Witness ==
  /\ pc = "finally"
  /\ failure = "InsufficientIncomingCapacityError"
  /\ fulfillCount > 0
  /\ handler = NoHandler

\* C8: the handler fulfills exactly the prepares that carry the packet's
\* condition and an amount of at least the oracle conversion of the packet
\* amount less the slippage, rounded up; every other prepare gets the
\* application error and no secret.
C8_Slippage ==
  (pc = "inflight" /\ handlerCall # NoCall) =>
    IF /\ handlerCall.condition = packet.executionCondition
       /\ handlerCall.amount * (Den * SrcScale * rateDen * SlipDen)
            >= packetAmount * rateNum * destScale * (SlipDen - SlipNum)
      THEN /\ handlerCall.reply = "fulfill"
           /\ handlerCall.fulfillment = fulfillment
      ELSE /\ handlerCall.reply = "APPLICATION_ERROR"
           /\ handlerCall.fulfillment # fulfillment

\* the right condition with an amount one unit short of the bound
C8_Witness ==
  /\ pc = "inflight"
  /\ handlerCall.reply = "APPLICATION_ERROR"
  /\ handlerCall.condition = packet.executionCondition
  /\ handlerCall.amount > 0
  /\ (handlerCall.amount + 1) * (Den * SrcScale * rateDen * SlipDen)
       >= packetAmount * rateNum * destScale * (SlipDen - SlipNum)

\* C9: whatever reject sendPacket resolves with, the session goes on to the
\* next iteration and is not failed by it.
C9_RejectNeverFatal ==
  [][(pc = "resp" /\ response.type = "reject")
       => (pc' = "loop" /\ result' = "pending" /\ failure' = "none")]_vars

\* C10: an F08 reject with (foreignReceived, foreignMax) for a packet of p
\* leaves maxPacketAmount alone when floor(p * foreignMax / foreignReceived)
\* is at least p, and sets it to that value otherwise; with foreignReceived
\* = 0 the quotient is no number below p and maxPacketAmount stays.
C10_BackOff ==
  [][(/\ pc = "resp"
      /\ response.type = "reject"
      /\ response.code = "F08"
      /\ response.dataLength = 16)
     => LET p == packetAmount \div Den
            fr == response.foreignReceived
            fm == response.foreignMax
        IN /\ packetAmount = p * Den
           /\ fr > 0 =>
                IF (p * fm) \div fr >= p
                  THEN maxPacketAmount' = maxPacketAmount
                  ELSE maxPacketAmount' = ((p * fm) \div fr) * Den
           /\ fr = 0 => maxPacketAmount' = maxPacketAmount]_vars

\* a first packet of two base units was rejected with a foreign maximum of
\* half of what was received: maxPacketAmount is one base unit
C10_Witness ==
  /\ pc = "loop"
  /\ prepareCount = 1
  /\ packetAmount = 2 * Den
  /\ maxPacketAmount = Den

\* a step that sizes a packet: the values it sampled are the unprimed ones
Sizes == pc = "loop" /\ pc' = "gen"

\* availableToDebit in 1/Den of a base unit
DebitSampled ==
  (availableToDebit[1] * SrcScale * Den) \div availableToDebit[2]

\* C11 as claimed: a sized packet is at most maxPacketAmount, at most the
\* availableToDebit sampled and at most the remaining amount.
C11_WithinBounds ==
  [][Sizes =>
       /\ maxPacketAmount = Infinity \/ packetAmount' <= maxPacketAmount
       /\ packetAmount' <= DebitSampled
       /\ packetAmount' <= remainingAmount]_vars

\* C11 as amended: a sized packet is at most maxPacketAmount, and exceeds
\* the availableToDebit sampled and the remaining amount by less than one
\* base unit (the ceiling of the equal split).
C11_WithinCeilings ==
  [][Sizes =>
       /\ maxPacketAmount = Infinity \/ packetAmount' <= maxPacketAmount
       /\ packetAmount' < DebitSampled + Den
       /\ packetAmount' < remainingAmount + Den]_vars

\* a packet sized above the remaining amount under a lowered maxPacketAmount
C11_Witness ==
  /\ pc = "gen"
  /\ maxPacketAmount # Infinity
  /\ packetAmount = maxPacketAmount
  /\ packetAmount > remainingAmount

\* C12: with the bound b = min(availableToDebit, remaining, maxPacketAmount)
\* positive, the packet is the remaining amount R divided by n and rounded
\* up to a base unit, where n is the least number of packets of at most b
\* that cover R.
C12_EqualSplit ==
  [][Sizes =>
       LET R == remainingAmount
           d == IF DebitSampled < R THEN DebitSampled ELSE R
           b == IF maxPacketAmount # Infinity /\ maxPacketAmount < d
                  THEN maxPacketAmount ELSE d
       IN b > 0 =>
            \E n \in 1..MaxAmount :
              /\ (n - 1) * b < R
              /\ R <= n * b
              /\ packetAmount' % Den = 0
              /\ n * packetAmount' >= R
              /\ n * (packetAmount' - Den) < R]_vars

\* two base units left and half a base unit to debit: four packets of one
\* base unit, not of half a unit
C12_Witness ==
  /\ pc = "gen"
  /\ remainingAmount = 2 * Den
  /\ maxPacketAmount = Infinity
  /\ DebitSampled * 2 = Den
  /\ packetAmount = Den

\* a fulfill received whose continuation has not run yet
FulfillPending ==
  IF pc = "resp" /\ response.type = "fulfill" THEN 1 ELSE 0

\* C13 as claimed: 0 <= fulfillCount <= prepareCount in every state, the
\* counters never decrease, prepareCount is the number of packets dispatched
\* and fulfillCount the number of those that were fulfilled.
C13_CountsDispatched ==
  /\ [](/\ 0 <= fulfillCount
        /\ fulfillCount <= prepareCount
        /\ prepareCount = dispatched
        /\ fulfillCount + FulfillPending = fulfills)
  /\ [][prepareCount' >= prepareCount /\ fulfillCount' >= fulfillCount]_vars

\* C13 as amended: the same, except that prepareCount is one ahead of the
\* number of packets dispatched while the iteration that counted its packet
\* awaits generateSecret, before it sends.
C13_Counters ==
  /\ [](/\ 0 <= fulfillCount
        /\ fulfillCount <= prepareCount
        /\ prepareCount = dispatched + (IF pc = "gen" THEN 1 ELSE 0)
        /\ fulfillCount + FulfillPending = fulfills)
  /\ [][prepareCount' >= prepareCount /\ fulfillCount' >= fulfillCount]_vars

\* the second packet counted and not yet sent, the first one fulfilled
C13_Witness ==
  /\ pc = "gen"
  /\ prepareCount = 2
  /\ dispatched = 1
  /\ fulfillCount = 1

\* C14: at most one packet is dispatched and not yet applied, and a packet
\* is dispatched only when every earlier one has had its outcome received
\* and applied to totalFulfilled, fulfillCount and maxPacketAmount.
C14_Sequential ==
  /\ [](dispatched - applied \in {0, 1})
  /\ [][dispatched' = dispatched + 1 =>
          /\ dispatched = applied
          /\ response = NoResponse
          /\ fulfillCount = fulfills]_vars

\* the second packet in flight, the first one applied
C14_Witness ==
  /\ pc = "inflight"
  /\ dispatched = 2
  /\ applied = 1
  /\ fulfillCount = 1

\* C15: for a session alone on its destination, the predicate of a packet
\* is in the handler slot when the packet is dispatched and until its outcome
\* is handled, the slot is empty when an iteration begins, and an iteration
\* that sends nothing leaves it empty.
C15_HandlerScope ==
  /\ [](/\ pc \in {"inflight", "resp"} =>
             /\ handler.owner = 1
             /\ handler.condition = packet.executionCondition
             /\ handler.sourceAmount = packet.amount
             /\ Sha256(handler.fulfillment) = handler.condition
        /\ pc \in {"start", "loop", "wait", "gen"} => handler = NoHandler
        /\ pc = "finally" /\ failure \notin {"SendError", "UnderflowError"}
             => handler = NoHandler)
  /\ [][/\ dispatched' = dispatched + 1 =>
             /\ handler = NoHandler
             /\ handler'.owner = 1
             /\ handler'.condition = packet'.executionCondition
        /\ pc = "loop" /\ dispatched' = dispatched => handler' = NoHandler
        /\ pc' = "loop" => handler' = NoHandler]_vars

\* the second iteration begins with the slot emptied after the first packet
C15_Witness ==
  /\ pc = "loop"
  /\ dispatched = 1
  /\ applied = 1
  /\ handler = NoHandler

\* C16: an iteration that samples availableToDebit <= 0 registers no
\* handler, sends nothing and leaves prepareCount, fulfillCount,
\* totalFulfilled, maxPacketAmount and the idle deadline as they were; after
\* the wait the loop restarts from the top, so a session that has nothing to
\* debit for the whole idle window fails by idle timeout.
C16_DebitWait ==
  /\ [][/\ pc = "loop" /\ (availableToDebit[1] <= 0 \/ pc' = "wait") =>
             /\ pc' \in {"loop", "wait", "finally"}
             /\ pc' = "wait" => availableToDebit[1] <= 0
             /\ handler = NoHandler /\ handler' = NoHandler
             /\ packet' = NoPacket
             /\ UNCHANGED <<prepareCount, fulfillCount, totalFulfilled,
                            maxPacketAmount, timeout, dispatched>>
        /\ pc = "wait" =>
             /\ pc' \in {"wait", "loop"}
             /\ handler' = NoHandler
             /\ UNCHANGED <<prepareCount, fulfillCount, totalFulfilled,
                            maxPacketAmount, timeout, dispatched>>]_vars
  /\ (pc = "wait" /\ timeout + TickStep <= MaxTime)
       ~> \/ availableToDebit[1] > 0
          \/ Outcome = "FAILED" /\ failure = "StreamTimeoutError"

\* a session that never had anything to debit and failed by idle timeout
C16_Witness ==
  /\ Outcome = "FAILED"
  /\ failure = "StreamTimeoutError"
  /\ availableToDebit[1] <= 0
  /\ dispatched = 0
  /\ now > timeout

\* C17: handling a rejection of any code leaves totalFulfilled,
\* fulfillCount and the idle deadline unchanged, and a rejection of a code
\* other than F08 leaves maxPacketAmount unchanged too; the idle deadline is
\* set only when the session starts and when a fulfill is handled.
C17_RejectFrame ==
  [][/\ pc = "resp" /\ response.type = "reject" =>
          /\ UNCHANGED <<totalFulfilled, fulfillCount, timeout>>
          /\ response.code # "F08" => UNCHANGED maxPacketAmount
     /\ timeout' # timeout =>
          /\ pc = "start" \/ (pc = "resp" /\ response.type = "fulfill")
          /\ timeout' = now + IDLE_TIMEOUT]_vars

\* a fulfill and a rejection handled: one packet delivered, no limit learnt,
\* and the deadline still the one the fulfill set
C17_Witness ==
  /\ pc = "loop"
  /\ applied = 2
  /\ fulfillCount = 1
  /\ totalFulfilled = lastFulfilled
  /\ maxPacketAmount = Infinity
  /\ timeout < now + IDLE_TIMEOUT

\* C18: maxPacketAmount is at least one base unit in every state, and
\* every packet dispatched by a session whose amountToSend is a whole number
\* of base units carries at least one base unit.
C18_PositivePackets ==
  /\ maxPacketAmount = Infinity \/ maxPacketAmount >= Den
  /\ pc \in {"inflight", "resp"} /\ amountToSend % Den = 0
       => packet.amount >= Den

\* C19: a session cannot go on fulfilling packets without totalFulfilled
\* approaching amountToSend: every fulfill that is counted raises
\* totalFulfilled, so the fulfills of a session are bounded by its amount.
C19_FulfillProgress ==
  [][fulfillCount' = fulfillCount + 1 =>
       /\ totalFulfilled' > totalFulfilled
       /\ amountToSend - totalFulfilled' < amountToSend - totalFulfilled]_vars

\* C20: with a second session on the same dest, while a packet of the
\* first session is in flight or its outcome not yet handled, the handler
\* slot of dest holds the predicate the first session registered for it.
C20_Isolation ==
  pc \in {"inflight", "resp"} =>
    /\ handler # NoHandler
    /\ handler.owner = 1
    /\ handler.condition = packet.executionCondition
    /\ handler.fulfillment = fulfillment

====
